---------------------------- MODULE Spec2Model ----------------------------
(***************************************************************************)
(* A model of stowr's domain code generator and of the code it generates.  *)
(*                                                                         *)
(*   - #[domain]       crates/macro/src/lib.rs, 10-62   (SpecDomain)       *)
(*   - #[domain_impl]  crates/macro/src/lib.rs, 72-172  (SpecGen)          *)
(*   - the generated Aggregate impl run on Foo and Baz  (SpecAgg)          *)
(*   - VectorFooRepo   crates/core/src/common.rs, 153-180 (SpecRepo)       *)
(*                                                                         *)
(* Identifiers are token sequences, so that format_ident! is              *)
(* concatenation and the PascalCase transform is computed, not assumed.    *)
(***************************************************************************)
EXTENDS Integers, Sequences, FiniteSets, TLC

VARIABLES
    \* ---- #[domain_impl] expansion (one macro invocation)
    gen_pc,        \* "start" | "loop" | "emitted" | "panicked"
    self_ty_kind,  \* shape of input.self_ty: "Path" | "Other"
    self_ty,       \* last path segment of the implementor type
    items,         \* input.items
    item_idx,      \* position of the for loop over input.items
    cmd_variants, evt_variants, handle_arms, apply_arms,
    expanded,      \* the token stream domain_impl returns, NoOutput before
    \* ---- the generated Aggregate at run time
    agg,           \* the live aggregate state
    phase,         \* "idle" | "handled" | "applied"
    before,        \* the state handle_command was called on
    cmd,           \* the command of the last handle_command call
    result,        \* what the last handle_command returned
    copy,          \* the local `agg` of the handle arm after the method ran
    \* ---- #[domain] expansion
    dom_pc,        \* "start" | "fields" | "emitted" | "panicked"
    dom_input,     \* the ItemStruct
    dom_fields,    \* the named fields the match at line 21 yields
    dom_out,       \* the artifacts of the returned token stream
    \* ---- VectorFooRepo
    db,            \* the Vec<Foo> behind the Mutex
    lock,          \* the thread holding the Mutex, NoThread when free
    tpc,           \* per thread: position inside create / fetch
    top,           \* per thread: the call it is in
    tret,          \* per thread: what its last call returned
    snap,          \* per thread: db as it was when the thread took the lock
    pushed,        \* every entity a create has pushed, in push order
    calls,         \* per entity: how many times create was called with it
    \* ---- RepositoryId conversions
    id_cur,        \* the identifier under conversion
    id_text,       \* a text form of it: [src, chars], src "none" before any
    id_parsed,     \* what FromStr returned for id_text
    id_raw,        \* what From<RepositoryId<T>> for Uuid returned
    id_rebuilt     \* what From<Uuid> for RepositoryId<T> returned for id_raw

vars == << gen_pc, self_ty_kind, self_ty, items, item_idx, cmd_variants,
           evt_variants, handle_arms, apply_arms, expanded,
           agg, phase, before, cmd, result, copy,
           dom_pc, dom_input, dom_fields, dom_out,
           db, lock, tpc, top, tret, snap, pushed, calls,
           id_cur, id_text, id_parsed, id_raw, id_rebuilt >>

genVars  == << gen_pc, self_ty_kind, self_ty, items, item_idx, cmd_variants,
               evt_variants, handle_arms, apply_arms, expanded >>
aggVars  == << agg, phase, before, cmd, result, copy >>
domVars  == << dom_pc, dom_input, dom_fields, dom_out >>
repoVars == << db, lock, tpc, top, tret, snap, pushed, calls >>
idVars   == << id_cur, id_text, id_parsed, id_raw, id_rebuilt >>

---------------------------------------------------------------------------
\* Bounds of the model.

\* Longest impl block (number of items) the generator is run on.
MaxItems == 3
\* Longest record declaration (number of fields) #[domain] is run on.
MaxFields == 2
\* Most entities the repository's vector holds.
MaxDb == 3

---------------------------------------------------------------------------
\* Sequence helpers.

Range(s) == { s[i] : i \in DOMAIN s }

RECURSIVE SeqsUpTo(_, _)
\* All sequences over S of length at most n without a repeated element.
SeqsUpTo(S, n) ==
    IF n = 0 THEN { <<>> }
    ELSE LET shorter == SeqsUpTo(S, n - 1)
             longest == { t \in shorter : Len(t) = n - 1 }
         IN  shorter \cup
             UNION { { Append(s, x) : x \in S \ Range(s) } : s \in longest }

---------------------------------------------------------------------------
\* heck::ToUpperCamelCase on identifiers written in [a-z_]: the words are
\* the maximal runs between underscores, each word gets its first letter in
\* upper case, and the words are joined with nothing between them.

LowerLetters == << "a","b","c","d","e","f","g","h","i","j","k","l","m",
                   "n","o","p","q","r","s","t","u","v","w","x","y","z" >>
UpperLetters == << "A","B","C","D","E","F","G","H","I","J","K","L","M",
                   "N","O","P","Q","R","S","T","U","V","W","X","Y","Z" >>

ToUpper(c) ==
    IF \E i \in DOMAIN LowerLetters : LowerLetters[i] = c
    THEN UpperLetters[CHOOSE i \in DOMAIN LowerLetters : LowerLetters[i] = c]
    ELSE c

RECURSIVE CamelFrom(_, _, _)
CamelFrom(s, i, wordStart) ==
    IF i > Len(s) THEN <<>>
    ELSE IF s[i] = "_" THEN CamelFrom(s, i + 1, TRUE)
    ELSE << (IF wordStart THEN ToUpper(s[i]) ELSE s[i]) >>
         \o CamelFrom(s, i + 1, FALSE)

to_upper_camel_case(s) == CamelFrom(s, 1, TRUE)

---------------------------------------------------------------------------
\* The input of #[domain_impl]: impl items.

Receiver == [kind |-> "Receiver", pat |-> "self", ident |-> "self", ty |-> "Self"]
Typed(pat, ident, ty) == [kind |-> "Typed", pat |-> pat, ident |-> ident, ty |-> ty]

Method(name, isCmd, inputs) ==
    [kind |-> "Fn", ident |-> name, is_cmd |-> isCmd, inputs |-> inputs]

\* common.rs 136-139
M_rename == Method(<<"r","e","n","a","m","e">>, TRUE,
                   << Receiver, Typed("Ident", "new_name", "String") >>)
\* 02-domain-impl.rs 50-53
M_increment == Method(<<"i","n","c","r","e","m","e","n","t">>, TRUE,
                      << Receiver, Typed("Ident", "by", "u8") >>)
\* 02-domain-impl.rs 45-48
M_create == Method(<<"c","r","e","a","t","e">>, TRUE,
                   << Typed("Ident", "_id", "BazId"), Typed("Ident", "_val", "u8") >>)
\* Two commands whose names differ and whose PascalCase forms agree.
M_set_val  == Method(<<"s","e","t","_","v","a","l">>, TRUE,
                     << Receiver, Typed("Ident", "val", "u8") >>)
M_set__val == Method(<<"s","e","t","_","_","v","a","l">>, TRUE,
                     << Receiver, Typed("Ident", "val", "u8") >>)
\* A command with a parameter written as a wildcard pattern.
M_skip == Method(<<"s","k","i","p">>, TRUE,
                 << Receiver, Typed("Wild", "_", "u8"), Typed("Ident", "by", "u8") >>)
\* A method without #[command], and an impl item that is no method.
M_get_val == Method(<<"g","e","t","_","v","a","l">>, FALSE, << Receiver >>)
I_const == [kind |-> "Const", ident |-> <<"M","A","X">>, is_cmd |-> FALSE,
            inputs |-> <<>>]

ItemPool == { M_rename, M_increment, M_create, M_set_val, M_set__val,
              M_skip, M_get_val, I_const }

---------------------------------------------------------------------------
\* #[domain_impl], lib.rs 72-172.

NoOutput == [emitted |-> FALSE]

\* lib.rs 96
VariantName(m) == to_upper_camel_case(m.ident)

\* lib.rs 98-106: the (ident, type) pairs pushed to `fields`.
RECURSIVE CollectFrom(_, _)
CollectFrom(inputs, i) ==
    IF i > Len(inputs) THEN <<>>
    ELSE (IF inputs[i].kind = "Typed" /\ inputs[i].pat = "Ident"
          THEN << [ident |-> inputs[i].ident, ty |-> inputs[i].ty] >>
          ELSE <<>>)
         \o CollectFrom(inputs, i + 1)

CollectFields(m) == CollectFrom(m.inputs, 1)

\* lib.rs 107
FieldNames(fields) == [i \in DOMAIN fields |-> fields[i].ident]

\* lib.rs 111
CmdVariant(m) == [name |-> VariantName(m), fields |-> CollectFields(m)]

\* lib.rs 112
EvtVariant(m) == [name |-> VariantName(m), fields |-> CollectFields(m)]

\* lib.rs 119: what the arm runs the method on.
ArmReceiverSelf == "self"
ArmReceiver == "self.clone()"

\* lib.rs 121: the names the event variant is built from, read from `source`.
ArmEventsNone(m) == <<>>
ArmEventsPost(m) ==
    << [variant |-> VariantName(m), names |-> FieldNames(CollectFields(m)),
        source |-> "agg"] >>
ArmEvents(m) ==
    << [variant |-> VariantName(m), names |-> FieldNames(CollectFields(m)),
        source |-> "cmd"] >>

\* lib.rs 117-123
HandleArm(m) ==
    [pattern  |-> VariantName(m),
     binds    |-> FieldNames(CollectFields(m)),
     receiver |-> ArmReceiver,
     method   |-> m.ident,
     args     |-> FieldNames(CollectFields(m)),
     events   |-> ArmEvents(m)]

\* lib.rs 128: what the apply arm runs the method on.
ApplyReceiverClone == "self.clone()"
ApplyReceiver == "self"

\* lib.rs 126-130
ApplyArm(m) ==
    [pattern  |-> VariantName(m),
     binds    |-> FieldNames(CollectFields(m)),
     receiver |-> ApplyReceiver,
     method   |-> m.ident,
     args     |-> FieldNames(CollectFields(m))]

\* lib.rs 89-93: the items the loop body runs for.
IsCommand(item) == item.kind = "Fn" /\ item.is_cmd

\* lib.rs 134-171
Expand(input_items, ty, cmds, evts, harms, aarms) ==
    [emitted  |-> TRUE,
     input    |-> input_items,
     cmd_enum |-> [name |-> ty \o <<"Command">>, variants |-> cmds],
     evt_enum |-> [name |-> ty \o <<"Event">>, variants |-> evts],
     agg_impl |-> [self_ty |-> ty, handle_arms |-> harms, apply_arms |-> aarms]]

GenInit ==
    /\ gen_pc = "start"
    /\ self_ty_kind \in {"Path", "Other"}
    /\ self_ty \in { <<"Foo">>, <<"Baz">> }
    /\ items \in SeqsUpTo(ItemPool, MaxItems)
    /\ item_idx = 1
    /\ cmd_variants = <<>>
    /\ evt_variants = <<>>
    /\ handle_arms = <<>>
    /\ apply_arms = <<>>
    /\ expanded = NoOutput

GenIdle ==
    /\ gen_pc = "idle"
    /\ self_ty_kind = "Path"
    /\ self_ty = <<"Foo">>
    /\ items = <<>>
    /\ item_idx = 1
    /\ cmd_variants = <<>>
    /\ evt_variants = <<>>
    /\ handle_arms = <<>>
    /\ apply_arms = <<>>
    /\ expanded = NoOutput

\* lib.rs 74-85
DomainImplSelfTy ==
    /\ gen_pc = "start"
    /\ gen_pc' = IF self_ty_kind = "Path" THEN "loop" ELSE "panicked"
    /\ UNCHANGED << self_ty_kind, self_ty, items, item_idx, cmd_variants,
                    evt_variants, handle_arms, apply_arms, expanded >>
    /\ UNCHANGED << aggVars, domVars, repoVars, idVars >>

\* lib.rs 88-132: one iteration of the loop over input.items.
DomainImplItem ==
    /\ gen_pc = "loop"
    /\ item_idx <= Len(items)
    /\ LET m == items[item_idx] IN
         IF IsCommand(m)
         THEN /\ cmd_variants' = Append(cmd_variants, CmdVariant(m))
              /\ evt_variants' = Append(evt_variants, EvtVariant(m))
              /\ handle_arms' = Append(handle_arms, HandleArm(m))
              /\ apply_arms' = Append(apply_arms, ApplyArm(m))
         ELSE UNCHANGED << cmd_variants, evt_variants, handle_arms, apply_arms >>
    /\ item_idx' = item_idx + 1
    /\ UNCHANGED << gen_pc, self_ty_kind, self_ty, items, expanded >>
    /\ UNCHANGED << aggVars, domVars, repoVars, idVars >>

\* lib.rs 134-171
DomainImplExpand ==
    /\ gen_pc = "loop"
    /\ item_idx > Len(items)
    /\ expanded' = Expand(items, self_ty, cmd_variants, evt_variants,
                          handle_arms, apply_arms)
    /\ gen_pc' = "emitted"
    /\ UNCHANGED << self_ty_kind, self_ty, items, item_idx, cmd_variants,
                    evt_variants, handle_arms, apply_arms >>
    /\ UNCHANGED << aggVars, domVars, repoVars, idVars >>

GenNext == DomainImplSelfTy \/ DomainImplItem \/ DomainImplExpand

---------------------------------------------------------------------------
\* The generated Aggregate at run time, on the two entities the repository
\* declares with a command that takes a receiver: Foo (common.rs 129-140)
\* and Baz (02-domain-impl.rs 38-54).  Baz::create takes no receiver, so the
\* arm generated for it (`agg.create(..)`) is no method call the compiler
\* accepts; the run-time model keeps to the commands that can be dispatched.

\* The width of u8.
U8Modulus == 256

FooImpl == << M_rename >>
BazImpl == << M_get_val, M_increment >>

ImplOf(ty) == IF ty = "Foo" THEN FooImpl ELSE BazImpl

\* The declared fields of the entity, in declaration order.
DeclFields(ty) == IF ty = "Foo" THEN << "name" >> ELSE << "val" >>

StringValues == { "Old Name", "New Name", "warehouse" }
U8Values == { 0, 1, 5, 255 }
UuidValues == { 1, 2 }

TypeValues(t) == IF t = "String" THEN StringValues ELSE U8Values

Foo(id, name) == [ty |-> "Foo", id |-> id, fields |-> [name |-> name]]
Baz(id, val)  == [ty |-> "Baz", id |-> id, fields |-> [val |-> val]]

\* The bodies of the command methods: Foo::rename (common.rs 137-139) and
\* Baz::increment (02-domain-impl.rs 51-53).
CallMethod(state, method, argv) ==
    IF method = M_rename.ident
    THEN [state EXCEPT !.fields.name = argv[1]]
    ELSE IF method = M_increment.ident
    THEN [state EXCEPT !.fields.val = (@ + argv[1]) % U8Modulus]
    ELSE state

\* The four lists domain_impl builds for a whole impl block (lib.rs 88-132).
RECURSIVE GenFrom(_, _)
GenFrom(its, i) ==
    IF i > Len(its)
    THEN [cmds |-> <<>>, evts |-> <<>>, harms |-> <<>>, aarms |-> <<>>]
    ELSE LET rest == GenFrom(its, i + 1)
             m == its[i]
         IN  IF IsCommand(m)
             THEN [cmds  |-> << CmdVariant(m) >> \o rest.cmds,
                   evts  |-> << EvtVariant(m) >> \o rest.evts,
                   harms |-> << HandleArm(m) >> \o rest.harms,
                   aarms |-> << ApplyArm(m) >> \o rest.aarms]
             ELSE rest

Generated(ty) ==
    LET g == GenFrom(ImplOf(ty), 1)
    IN  Expand(ImplOf(ty), << ty >>, g.cmds, g.evts, g.harms, g.aarms)

\* The expansion of each entity's impl block.
GeneratedOf == [ty \in {"Foo", "Baz"} |-> Generated(ty)]

\* The values of the generated command enum (lib.rs 142-145).
CommandsOf(ty) ==
    UNION { LET v == GeneratedOf[ty].cmd_enum.variants[k]
                names == { v.fields[i].ident : i \in DOMAIN v.fields }
                vals == UNION { TypeValues(v.fields[i].ty) : i \in DOMAIN v.fields }
            IN  { [variant |-> v.name, fields |-> f] :
                    f \in { g \in [names -> vals] :
                              \A i \in DOMAIN v.fields :
                                 g[v.fields[i].ident] \in TypeValues(v.fields[i].ty) } }
          : k \in DOMAIN GeneratedOf[ty].cmd_enum.variants }

\* `match`: the first arm whose pattern is the value's variant.
MatchArm(arms, variant) ==
    arms[CHOOSE i \in DOMAIN arms :
            /\ arms[i].pattern = variant
            /\ \A j \in DOMAIN arms : arms[j].pattern = variant => i <= j]

\* lib.rs 121: the event built from the bound names.  A name read from the
\* post-call copy is the declared field at the same position.
BuildEvent(tmpl, bound, after) ==
    [variant |-> tmpl.variant,
     fields  |-> [n \in Range(tmpl.names) |->
                    IF tmpl.source = "cmd" THEN bound[n]
                    ELSE after.fields[
                           DeclFields(after.ty)[
                             CHOOSE i \in DOMAIN tmpl.names : tmpl.names[i] = n]]]]

\* lib.rs 157-161 with the arm of lib.rs 117-123: the value returned, the
\* state of `self` after the call, and the local `agg` after the method ran.
handle_command(self, c) ==
    LET arm   == MatchArm(GeneratedOf[self.ty].agg_impl.handle_arms, c.variant)
        bound == c.fields
        argv  == [i \in DOMAIN arm.args |-> bound[arm.args[i]]]
        after == CallMethod(self, arm.method, argv)
    IN  [ret   |-> [ok |-> TRUE,
                    events |-> [k \in DOMAIN arm.events |->
                                  BuildEvent(arm.events[k], bound, after)]],
         self_after |-> IF arm.receiver = "self" THEN after ELSE self,
         local |-> after]

\* lib.rs 163-167 with the arm of lib.rs 126-130: `self` after the call.
apply_event(self, evt) ==
    LET arm   == MatchArm(GeneratedOf[self.ty].agg_impl.apply_arms, evt.variant)
        argv  == [i \in DOMAIN arm.args |-> evt.fields[arm.args[i]]]
        after == CallMethod(self, arm.method, argv)
    IN  IF arm.receiver = "self" THEN after ELSE self

\* Folding apply_event over an event list, in order.
RECURSIVE FoldApply(_, _, _)
FoldApply(state, evts, i) ==
    IF i > Len(evts) THEN state
    ELSE FoldApply(apply_event(state, evts[i]), evts, i + 1)

NoCommand == [variant |-> <<>>, fields |-> <<>>]
NoResult == [ok |-> TRUE, events |-> <<>>]

InitialEntities ==
    { Foo(i, n) : i \in UuidValues, n \in StringValues }
      \cup { Baz(i, v) : i \in UuidValues, v \in U8Values }

AggInit ==
    /\ agg \in InitialEntities
    /\ phase = "idle"
    /\ before = agg
    /\ cmd = NoCommand
    /\ result = NoResult
    /\ copy = agg

AggIdle ==
    /\ agg = Foo(1, "Old Name")
    /\ phase = "off"
    /\ before = agg
    /\ cmd = NoCommand
    /\ result = NoResult
    /\ copy = agg

\* A caller dispatches a command: Aggregate::handle_command (lib.rs 157-161).
HandleCommand ==
    /\ phase \in {"idle", "handled", "applied"}
    /\ \E c \in CommandsOf(agg.ty) :
         LET r == handle_command(agg, c) IN
           /\ cmd' = c
           /\ before' = agg
           /\ result' = r.ret
           /\ agg' = r.self_after
           /\ copy' = r.local
    /\ phase' = "handled"
    /\ UNCHANGED << genVars, domVars, repoVars, idVars >>

\* The caller replays the returned events on the live state:
\* Aggregate::apply_event (lib.rs 163-167), once per event.
ApplyEvents ==
    /\ phase = "handled"
    /\ agg' = FoldApply(agg, result.events, 1)
    /\ phase' = "applied"
    /\ UNCHANGED << before, cmd, result, copy >>
    /\ UNCHANGED << genVars, domVars, repoVars, idVars >>

AggNext == HandleCommand \/ ApplyEvents


---------------------------------------------------------------------------
\* #[domain], lib.rs 10-62.

Field(ident, ty) == [ident |-> ident, ty |-> ty]

NamedFieldPool == { Field("name", "String"), Field("a", "String"),
                    Field("b", "i32"), Field("val", "u8") }
\* A positional field has no ident.
UnnamedFieldPool == { Field("", "String"), Field("", "i32"), Field("", "u8") }

ItemStructs ==
    { [ident |-> << n >>, vis |-> v, fields_kind |-> "Named", fields |-> fs] :
        n \in {"Foo", "Bar", "Baz"}, v \in {"", "pub"},
        fs \in SeqsUpTo(NamedFieldPool, MaxFields) }
    \cup
    { [ident |-> << n >>, vis |-> v, fields_kind |-> "Unnamed", fields |-> fs] :
        n \in {"Foo", "Bar", "Baz"}, v \in {"", "pub"},
        fs \in SeqsUpTo(UnnamedFieldPool, MaxFields) }
    \cup
    { [ident |-> << n >>, vis |-> v, fields_kind |-> "Unit", fields |-> <<>>] :
        n \in {"Foo", "Bar", "Baz"}, v \in {"", "pub"} }

\* lib.rs 21-24: the match on input.fields; `ok` is FALSE where it panics.
NamedFieldsLenient(input) ==
    IF input.fields_kind \in {"Named", "Unit"}
    THEN [ok |-> TRUE, named |-> input.fields]
    ELSE [ok |-> FALSE, named |-> <<>>]
NamedFields(input) ==
    IF input.fields_kind = "Named"
    THEN [ok |-> TRUE, named |-> input.fields]
    ELSE [ok |-> FALSE, named |-> <<>>]

\* lib.rs 28-59: the artifacts of the quoted token stream.
DomainArtifacts(input, fields) ==
    LET name == input.ident
        tag  == name \o <<"Tag">>
        id   == name \o <<"Id">>
        repo_trait == name \o <<"Repository">>
        repo_alias == name \o <<"Repo">>
    IN  { [kind |-> "tag", name |-> tag, vis |-> input.vis, body |-> <<>>],
          [kind |-> "id_alias", name |-> id, vis |-> input.vis,
           body |-> << Field("target", <<"RepositoryId">> \o tag) >>],
          [kind |-> "entity", name |-> name, vis |-> input.vis,
           body |-> << Field("id", id) >> \o fields],
          [kind |-> "constructor", name |-> name \o <<"new">>, vis |-> "pub",
           body |-> << Field("id", id) >> \o fields],
          [kind |-> "repository", name |-> repo_trait, vis |-> "pub",
           body |-> << Field("Entity", name), Field("Id", id),
                       Field("alias", repo_alias) >>] }

DomInit ==
    /\ dom_pc = "start"
    /\ dom_input \in ItemStructs
    /\ dom_fields = <<>>
    /\ dom_out = {}

DomIdle ==
    /\ dom_pc = "idle"
    /\ dom_input = [ident |-> <<"Foo">>, vis |-> "", fields_kind |-> "Named",
                    fields |-> <<>>]
    /\ dom_fields = <<>>
    /\ dom_out = {}

\* lib.rs 12-26: parse, derive the identifiers, match on the fields.
DomainFields ==
    /\ dom_pc = "start"
    /\ LET f == NamedFields(dom_input) IN
         /\ dom_pc' = IF f.ok THEN "fields" ELSE "panicked"
         /\ dom_fields' = f.named
    /\ UNCHANGED << dom_input, dom_out >>
    /\ UNCHANGED << genVars, aggVars, repoVars, idVars >>

\* lib.rs 28-61: quote the expansion and return it.
DomainExpand ==
    /\ dom_pc = "fields"
    /\ dom_out' = DomainArtifacts(dom_input, dom_fields)
    /\ dom_pc' = "emitted"
    /\ UNCHANGED << dom_input, dom_fields >>
    /\ UNCHANGED << genVars, aggVars, repoVars, idVars >>

DomNext == DomainFields \/ DomainExpand

---------------------------------------------------------------------------
\* VectorFooRepo, common.rs 153-180.

Threads == { 1, 2 }
NoThread == 0

RepoEntities == { Foo(i, n) : i \in UuidValues, n \in {"warehouse", "Old Name"} }

NoEntity == Foo(0, "")
NoCall == [op |-> "none", entity |-> NoEntity, id |-> 0]
NoRet == [set |-> FALSE, ok |-> FALSE, some |-> FALSE, value |-> NoEntity]
Ok(e) == [set |-> TRUE, ok |-> TRUE, some |-> TRUE, value |-> e]
OkNone == [set |-> TRUE, ok |-> TRUE, some |-> FALSE, value |-> NoEntity]

\* common.rs 178: guard.iter().cloned().find(|d| d.id == id), from index i.
RECURSIVE FindFrom(_, _, _)
FindFrom(v, id, i) ==
    IF i > Len(v) THEN OkNone
    ELSE IF v[i].id = id THEN Ok(v[i])
    ELSE FindFrom(v, id, i + 1)

VecFindSkipFirst(v, id) == FindFrom(v, id, 2)
VecFind(v, id) == FindFrom(v, id, 1)

\* A push that replaces the stored entity of the same id, when there is one.
VecUpsert(v, e) ==
    IF \E i \in DOMAIN v : v[i].id = e.id
    THEN [i \in DOMAIN v |-> IF v[i].id = e.id THEN e ELSE v[i]]
    ELSE Append(v, e)

\* common.rs 172: guard.push(entity.clone())
VecPush(v, e) == Append(v, e)

\* Creates that were called and have not pushed yet.
PendingCreates == { t \in Threads : tpc[t] \in {"create_lock", "create_push"} }

RepoInit ==
    /\ db = <<>>
    /\ lock = NoThread
    /\ tpc = [t \in Threads |-> "idle"]
    /\ top = [t \in Threads |-> NoCall]
    /\ tret = [t \in Threads |-> NoRet]
    /\ snap = [t \in Threads |-> <<>>]
    /\ pushed = <<>>
    /\ calls = [e \in RepoEntities |-> 0]

\* A thread calls create(entity): common.rs 170.
CallCreate(t) ==
    /\ tpc[t] = "idle"
    /\ Len(db) + Cardinality(PendingCreates) < MaxDb
    /\ \E e \in RepoEntities :
         /\ top' = [top EXCEPT ![t] = [op |-> "create", entity |-> e, id |-> e.id]]
         /\ calls' = [calls EXCEPT ![e] = @ + 1]
    /\ tpc' = [tpc EXCEPT ![t] = "create_lock"]
    /\ tret' = [tret EXCEPT ![t] = NoRet]
    /\ UNCHANGED << db, lock, snap, pushed >>
    /\ UNCHANGED << genVars, aggVars, domVars, idVars >>

\* A create that does not wait for the Mutex.
CreateLockNoWait(t) ==
    /\ tpc[t] = "create_lock"
    /\ lock' = t
    /\ snap' = [snap EXCEPT ![t] = db]
    /\ tpc' = [tpc EXCEPT ![t] = "create_push"]
    /\ UNCHANGED << db, top, tret, pushed, calls >>
    /\ UNCHANGED << genVars, aggVars, domVars, idVars >>

\* common.rs 171: self.db.lock().unwrap()
CreateLock(t) ==
    /\ tpc[t] = "create_lock"
    /\ lock = NoThread
    /\ lock' = t
    /\ snap' = [snap EXCEPT ![t] = db]
    /\ tpc' = [tpc EXCEPT ![t] = "create_push"]
    /\ UNCHANGED << db, top, tret, pushed, calls >>
    /\ UNCHANGED << genVars, aggVars, domVars, idVars >>

\* common.rs 172
CreatePush(t) ==
    /\ tpc[t] = "create_push"
    /\ db' = VecPush(db, top[t].entity)
    /\ pushed' = Append(pushed, top[t].entity)
    /\ tpc' = [tpc EXCEPT ![t] = "create_ret"]
    /\ UNCHANGED << lock, top, tret, snap, calls >>
    /\ UNCHANGED << genVars, aggVars, domVars, idVars >>

\* common.rs 173-174: Ok(entity), and the guard is dropped.
CreateReturn(t) ==
    /\ tpc[t] = "create_ret"
    /\ tret' = [tret EXCEPT ![t] = Ok(top[t].entity)]
    /\ lock' = NoThread
    /\ snap' = [snap EXCEPT ![t] = <<>>]
    /\ tpc' = [tpc EXCEPT ![t] = "idle"]
    /\ UNCHANGED << db, top, pushed, calls >>
    /\ UNCHANGED << genVars, aggVars, domVars, idVars >>

\* A thread calls fetch(id): common.rs 176.
CallFetch(t) ==
    /\ tpc[t] = "idle"
    /\ \E i \in UuidValues :
         top' = [top EXCEPT ![t] = [op |-> "fetch", entity |-> NoEntity, id |-> i]]
    /\ tpc' = [tpc EXCEPT ![t] = "fetch_lock"]
    /\ tret' = [tret EXCEPT ![t] = NoRet]
    /\ UNCHANGED << db, lock, snap, pushed, calls >>
    /\ UNCHANGED << genVars, aggVars, domVars, idVars >>

\* common.rs 177
FetchLock(t) ==
    /\ tpc[t] = "fetch_lock"
    /\ lock = NoThread
    /\ lock' = t
    /\ snap' = [snap EXCEPT ![t] = db]
    /\ tpc' = [tpc EXCEPT ![t] = "fetch_find"]
    /\ UNCHANGED << db, top, tret, pushed, calls >>
    /\ UNCHANGED << genVars, aggVars, domVars, idVars >>

\* common.rs 178: the scan, under the lock.
FetchFind(t) ==
    /\ tpc[t] = "fetch_find"
    /\ tret' = [tret EXCEPT ![t] = VecFind(db, top[t].id)]
    /\ tpc' = [tpc EXCEPT ![t] = "fetch_ret"]
    /\ UNCHANGED << db, lock, top, snap, pushed, calls >>
    /\ UNCHANGED << genVars, aggVars, domVars, idVars >>

\* common.rs 179: the guard is dropped and the result returned.
FetchReturn(t) ==
    /\ tpc[t] = "fetch_ret"
    /\ lock' = NoThread
    /\ snap' = [snap EXCEPT ![t] = <<>>]
    /\ tpc' = [tpc EXCEPT ![t] = "idle"]
    /\ UNCHANGED << db, top, tret, pushed, calls >>
    /\ UNCHANGED << genVars, aggVars, domVars, idVars >>

RepoIdle ==
    /\ db = <<>>
    /\ lock = NoThread
    /\ tpc = [t \in Threads |-> "off"]
    /\ top = [t \in Threads |-> NoCall]
    /\ tret = [t \in Threads |-> NoRet]
    /\ snap = [t \in Threads |-> <<>>]
    /\ pushed = <<>>
    /\ calls = [e \in RepoEntities |-> 0]

RepoNext ==
    \E t \in Threads :
        \/ CallCreate(t)
        \/ CreateLock(t)
        \/ CreatePush(t)
        \/ CreateReturn(t)
        \/ CallFetch(t)
        \/ FetchLock(t)
        \/ FetchFind(t)
        \/ FetchReturn(t)

---------------------------------------------------------------------------
\* RepositoryId<T>, common.rs 26-84.  A Uuid is its 16 bytes; its text form
\* is a sequence of characters.

EntityTags == { "FooTag", "BarTag", "BazTag" }

\* Byte patterns: all zero, all ones, and mixed nibbles.
BytePatterns ==
    { [i \in 1..16 |-> (a * i + b) % 256] :
        a \in {0, 1, 17, 23}, b \in {0, 160, 255} }

\* Uuid::new_v4 (common.rs 46): version nibble 4, variant bits 10.
V4Bits(v) ==
    [v EXCEPT ![7] = 64 + (@ % 16), ![9] = 128 + (@ % 64)]

\* The Uuids an identifier is made of: fresh v4 values (RepositoryId::new)
\* and arbitrary values handed in through From<Uuid>.
UuidPool == BytePatterns \cup { V4Bits(v) : v \in BytePatterns }

RepositoryId(value, tag) == [value |-> value, marker |-> tag]

HexLower == << "0","1","2","3","4","5","6","7","8","9","a","b","c","d","e","f" >>
HexUpper == << "0","1","2","3","4","5","6","7","8","9","A","B","C","D","E","F" >>

\* The two characters a byte is written as.
HexPairLowFirst(b) == << HexLower[(b % 16) + 1], HexLower[(b \div 16) + 1] >>
HexPair(b) == << HexLower[(b \div 16) + 1], HexLower[(b % 16) + 1] >>

\* Uuid's Display: lower-case hex in groups of 8-4-4-4-12.
RECURSIVE HyphenatedFrom(_, _)
HyphenatedFrom(v, i) ==
    IF i > Len(v) THEN <<>>
    ELSE HexPair(v[i])
         \o (IF i \in {4, 6, 8, 10} THEN << "-" >> ELSE <<>>)
         \o HyphenatedFrom(v, i + 1)

\* common.rs 52-56: Display for RepositoryId<T>.
to_string(id) == HyphenatedFrom(id.value, 1)

IsHex(c) == \E k \in DOMAIN HexLower : HexLower[k] = c \/ HexUpper[k] = c
HexValue(c) == (CHOOSE k \in DOMAIN HexLower : HexLower[k] = c \/ HexUpper[k] = c) - 1

\* Uuid::from_str on the hyphenated and the simple form, in either case;
\* any other text is an error.
ParseUuid(s) ==
    LET hyph == /\ Len(s) = 36
                /\ \A i \in DOMAIN s : (i \in {9, 14, 19, 24}) <=> (s[i] = "-")
        digits == IF hyph THEN SelectSeq(s, LAMBDA c : c # "-") ELSE s
    IN  IF Len(digits) = 32 /\ \A i \in DOMAIN digits : IsHex(digits[i])
        THEN [ok |-> TRUE,
              value |-> [i \in 1..16 |->
                           16 * HexValue(digits[2 * i - 1]) + HexValue(digits[2 * i])]]
        ELSE [ok |-> FALSE, value |-> <<>>]

\* common.rs 58-67: FromStr for RepositoryId<T>.
from_str(s, tag) ==
    LET u == ParseUuid(s)
    IN  IF u.ok THEN [ok |-> TRUE, id |-> RepositoryId(u.value, tag)]
        ELSE [ok |-> FALSE, id |-> RepositoryId(<<>>, tag)]

\* common.rs 80-84: From<RepositoryId<T>> for Uuid.
IntoUuid(id) == id.value

\* common.rs 70-77: From<Uuid> for RepositoryId<T>.
FromUuid(u, tag) == RepositoryId(u, tag)

\* Other texts a caller may hand to FromStr, made from the Display text.
UpperCased(s) ==
    [i \in DOMAIN s |->
       IF IsHex(s[i]) THEN HexUpper[HexValue(s[i]) + 1] ELSE s[i]]
Simple(s) == SelectSeq(s, LAMBDA c : c # "-")
Truncated(s) == SubSeq(s, 1, Len(s) - 1)

NoText == [src |-> "none", chars |-> <<>>]
NoParse == [set |-> FALSE, src |-> "none", ok |-> FALSE,
            id |-> RepositoryId(<<>>, "")]
NoUuid == <<>>
NoId == RepositoryId(<<>>, "")

IdInit ==
    /\ id_cur \in { RepositoryId(v, t) : v \in UuidPool, t \in EntityTags }
    /\ id_text = NoText
    /\ id_parsed = NoParse
    /\ id_raw = NoUuid
    /\ id_rebuilt = NoId

IdIdle ==
    /\ id_cur = NoId
    /\ id_text = NoText
    /\ id_parsed = NoParse
    /\ id_raw = NoUuid
    /\ id_rebuilt = NoId

\* original.to_string(): common.rs 52-56.
IdToString ==
    /\ id_text' = [src |-> "display", chars |-> to_string(id_cur)]
    /\ id_text.src # "display"
    /\ UNCHANGED << id_cur, id_parsed, id_raw, id_rebuilt >>
    /\ UNCHANGED << genVars, aggVars, domVars, repoVars >>

\* A caller writes the text in another form.
IdCallerText ==
    /\ id_text.src = "display"
    /\ \E s \in { UpperCased(id_text.chars), Simple(id_text.chars),
                  Truncated(id_text.chars) } :
         id_text' = [src |-> "caller", chars |-> s]
    /\ UNCHANGED << id_cur, id_parsed, id_raw, id_rebuilt >>
    /\ UNCHANGED << genVars, aggVars, domVars, repoVars >>

\* FooId::from_str(&s): common.rs 58-67, at the tag of the identifier.
IdFromStr ==
    /\ id_text.src # "none"
    /\ LET r == from_str(id_text.chars, id_cur.marker) IN
         id_parsed' = [set |-> TRUE, src |-> id_text.src, ok |-> r.ok, id |-> r.id]
    /\ UNCHANGED << id_cur, id_text, id_raw, id_rebuilt >>
    /\ UNCHANGED << genVars, aggVars, domVars, repoVars >>

\* let uuid: Uuid = original.into(): common.rs 80-84.
IdIntoUuid ==
    /\ id_raw = NoUuid
    /\ id_raw' = IntoUuid(id_cur)
    /\ UNCHANGED << id_cur, id_text, id_parsed, id_rebuilt >>
    /\ UNCHANGED << genVars, aggVars, domVars, repoVars >>

\* let reconstructed: FooId = uuid.into(): common.rs 70-77.
IdFromUuid ==
    /\ id_raw # NoUuid
    /\ id_rebuilt = NoId
    /\ id_rebuilt' = FromUuid(id_raw, id_cur.marker)
    /\ UNCHANGED << id_cur, id_text, id_parsed, id_raw >>
    /\ UNCHANGED << genVars, aggVars, domVars, repoVars >>

IdNext == IdToString \/ IdCallerText \/ IdFromStr \/ IdIntoUuid \/ IdFromUuid

---------------------------------------------------------------------------
\* Specifications: one per component, the others at rest.

InitGen == GenInit /\ AggIdle /\ DomIdle /\ RepoIdle /\ IdIdle
InitAgg == AggInit /\ GenIdle /\ DomIdle /\ RepoIdle /\ IdIdle
InitDomain == DomInit /\ GenIdle /\ AggIdle /\ RepoIdle /\ IdIdle
InitRepo == RepoInit /\ GenIdle /\ AggIdle /\ DomIdle /\ IdIdle

SpecGen == InitGen /\ [][GenNext]_vars
SpecAgg == InitAgg /\ [][AggNext]_vars
SpecDomain == InitDomain /\ [][DomNext]_vars
SpecRepo == InitRepo /\ [][RepoNext]_vars
InitId == IdInit /\ GenIdle /\ AggIdle /\ DomIdle /\ RepoIdle
SpecId == InitId /\ [][IdNext]_vars

---------------------------------------------------------------------------
\* Claims about the generated Aggregate (SpecAgg).

\* C1: handle_command leaves the state it is called on unchanged: after any
\* handle_command call the live state equals the state before the call.
C1_HandleCommandLeavesState ==
    phase = "handled" => agg = before

\* A call whose method changed the copy, with the live state as it was.
C1_Witness ==
    /\ phase = "handled"
    /\ copy # before
    /\ agg = before

\* C2: handle_command returns success with exactly one event.
C2_ExactlyOneEvent ==
    phase = "handled" => result.ok /\ Len(result.events) = 1

C2_Witness ==
    /\ phase = "handled"
    /\ cmd.variant = VariantName(M_increment)
    /\ result.ok
    /\ Len(result.events) = 1

\* The command-flagged method of the entity's impl block a command names,
\* and the command's arguments in the method's declaration order.
MethodOfCommand(ty, c) ==
    LET its == ImplOf(ty)
    IN  its[CHOOSE i \in DOMAIN its :
                IsCommand(its[i]) /\ to_upper_camel_case(its[i].ident) = c.variant]

DirectArgs(m, c) ==
    LET typed == SelectSeq(m.inputs, LAMBDA a : a.kind = "Typed")
    IN  [i \in DOMAIN typed |-> c.fields[typed[i].ident]]

\* Invoking the command's underlying method on state e with c's arguments.
DirectCall(e, c) ==
    LET m == MethodOfCommand(e.ty, c)
    IN  CallMethod(e, m.ident, DirectArgs(m, c))

\* C3: replay equivalence: applying the event handle_command(E0, C) returned
\* to E0 gives the state that invoking C's method on E0 directly gives.
C3_ReplayEquivalence ==
    phase = "applied" => agg = DirectCall(before, cmd)

\* A replay that changed the state.
C3_Witness ==
    /\ phase = "applied"
    /\ agg # before
    /\ agg = DirectCall(before, cmd)

\* The event's payload and the entity's fields, as value lists.
EventValues(e, names) == [i \in DOMAIN names |-> e.fields[names[i]]]
FieldValues(state) ==
    [i \in DOMAIN DeclFields(state.ty) |-> state.fields[DeclFields(state.ty)[i]]]

\* C5 as stated: the event carries the post-call field values of the copy.
C5_EventCarriesPostCallFields ==
    phase = "handled" =>
       /\ Len(result.events) = 1
       /\ EventValues(result.events[1],
                      FieldNames(CollectFields(MethodOfCommand(before.ty, cmd))))
            = FieldValues(copy)

\* C5 as amended: the event carries the command's own field values,
\* unchanged, under the command's variant name.
C5_EventCarriesCommandArgs ==
    phase = "handled" =>
       /\ Len(result.events) = 1
       /\ result.events[1].variant = cmd.variant
       /\ result.events[1].fields = cmd.fields

\* An increment whose argument differs from the copy's value after the call.
C5_Witness ==
    /\ phase = "handled"
    /\ before.ty = "Baz"
    /\ copy.fields.val # cmd.fields.by
    /\ result.events[1].fields.by = cmd.fields.by

---------------------------------------------------------------------------
\* Claims about #[domain_impl] (SpecGen).

\* The command-flagged methods of an impl block, in declaration order.
CommandMethods(its) == SelectSeq(its, IsCommand)

\* The non-receiver parameters of a method as (ident, type) pairs, in
\* declaration order, whatever pattern each is written with.
NonReceiverParams(m) ==
    LET typed == SelectSeq(m.inputs, LAMBDA a : a.kind = "Typed")
    IN  [i \in DOMAIN typed |-> [ident |-> typed[i].ident, ty |-> typed[i].ty]]

\* Two command-flagged methods map to the same PascalCase variant name.
Collides(its) ==
    LET ms == CommandMethods(its)
    IN  \E i, j \in DOMAIN ms :
           i # j /\ to_upper_camel_case(ms[i].ident) = to_upper_camel_case(ms[j].ident)

\* C6: in what domain_impl emits, every command variant has exactly one
\* event variant of the same name and fields, and every event variant has a
\* command variant of the same name and fields.
C6_CommandEventCorrespondence ==
    expanded.emitted =>
       LET cmds == expanded.cmd_enum.variants
           evts == expanded.evt_enum.variants
       IN  /\ \A i \in DOMAIN cmds :
                 Cardinality({ j \in DOMAIN evts : evts[j] = cmds[i] }) = 1
           /\ \A j \in DOMAIN evts : \E i \in DOMAIN cmds : cmds[i] = evts[j]

\* C7: in what domain_impl emits, the k-th command variant carries exactly
\* the non-receiver parameters of the k-th command-flagged method, by name
\* and type, in declaration order, whatever pattern they are written with.
C7_VariantCarriesAllParams ==
    expanded.emitted =>
       LET ms == CommandMethods(items)
           cmds == expanded.cmd_enum.variants
       IN  /\ Len(cmds) = Len(ms)
           /\ \A k \in DOMAIN ms : cmds[k].fields = NonReceiverParams(ms[k])

\* C8: when two command-flagged methods map to the same PascalCase variant
\* name, domain_impl fails and returns no expansion.
C8_CollisionIsFatal ==
    Collides(items) => gen_pc # "emitted" /\ ~expanded.emitted

---------------------------------------------------------------------------
\* Claims about #[domain] (SpecDomain).

FiveArtifacts == { "tag", "id_alias", "entity", "constructor", "repository" }

ArtifactKinds(out) == { a.kind : a \in out }

\* C9: on a declaration without named fields #[domain] fails before it
\* emits anything; with named fields it emits all five artifacts; no run
\* emits only some of them.
C9_AllOrNothing ==
    /\ ArtifactKinds(dom_out) \in { {}, FiveArtifacts }
    /\ dom_input.fields_kind # "Named" =>
          dom_out = {} /\ dom_pc \in {"start", "panicked"}
    /\ dom_input.fields_kind = "Named" =>
          dom_pc \in {"start", "fields", "emitted"}
    /\ dom_pc = "emitted" => ArtifactKinds(dom_out) = FiveArtifacts
    /\ dom_pc # "emitted" => dom_out = {}

\* A run on a positional declaration that has failed, with nothing emitted.
C9_Witness ==
    /\ dom_pc = "panicked"
    /\ dom_input.fields_kind = "Unnamed"
    /\ Len(dom_input.fields) > 0
    /\ dom_out = {}

---------------------------------------------------------------------------
\* Claims about VectorFooRepo (SpecRepo).

CreatedIds == { pushed[i].id : i \in DOMAIN pushed }

\* C10: create(e) returns an entity equal to e; fetch(X) returns Some of an
\* entity whose id is X when an entity with id X has been created, and None
\* (no error) when none has; fetch leaves the collection as it found it.
C10_CreateFetch ==
    \A t \in Threads :
       /\ (top[t].op = "create" /\ tret[t].set) => tret[t] = Ok(top[t].entity)
       /\ tpc[t] = "fetch_ret" =>
             /\ tret[t].set /\ tret[t].ok
             /\ top[t].id \in CreatedIds =>
                   tret[t].some /\ tret[t].value.id = top[t].id
             /\ top[t].id \notin CreatedIds => tret[t] = OkNone
       /\ tpc[t] \in {"fetch_find", "fetch_ret"} => db = snap[t]

\* One fetch has found a created id in a collection of several entities, and
\* another fetch has returned None for an id no create was called with.
C10_Witness ==
    \E t, u \in Threads :
       /\ tpc[t] = "fetch_ret"
       /\ tret[t].some
       /\ tret[t].value.id = top[t].id
       /\ Len(db) >= 2
       /\ top[u].op = "fetch"
       /\ tret[u] = OkNone
       /\ top[u].id \notin CreatedIds


\* The states of a call in which it holds the Mutex.
HoldsLock(t) == tpc[t] \in {"create_push", "create_ret", "fetch_find", "fetch_ret"}

\* How often entity e occurs in vector v.
Occurrences(v, e) == Cardinality({ i \in DOMAIN v : v[i] = e })

\* C12: under any interleaving of create and fetch calls each call runs
\* under the single lock: at most one call holds it; no created entity is
\* lost (every create call that has pushed accounts for exactly one entry of
\* the collection, so once all creates are complete each entity is there
\* once per call); and a fetch scans a collection no create is in the
\* middle of changing, returning only entities some create was called with.
C12_AtomicUnderLock ==
    /\ \A t \in Threads : HoldsLock(t) <=> lock = t
    /\ \A e \in RepoEntities :
          Occurrences(db, e)
            = calls[e] - Cardinality({ t \in PendingCreates : top[t].entity = e })
    /\ \A t \in Threads :
          tpc[t] \in {"fetch_find", "fetch_ret"} =>
             /\ \A u \in Threads : tpc[u] \notin {"create_push", "create_ret"}
             /\ db = snap[t]
             /\ (tpc[t] = "fetch_ret" /\ tret[t].some) => calls[tret[t].value] > 0

\* A fetch holds the lock with its result while the other thread's create,
\* the second call with the same entity, waits for it.
C12_Witness ==
    \E t, u \in Threads :
       /\ tpc[t] = "fetch_ret"
       /\ tret[t].some
       /\ tpc[u] = "create_lock"
       /\ calls[top[u].entity] >= 2
       /\ Occurrences(db, top[u].entity) = calls[top[u].entity] - 1

\* The position in v of the first entity with the id.
FirstIndex(v, id) ==
    CHOOSE i \in DOMAIN v :
       v[i].id = id /\ \A j \in DOMAIN v : v[j].id = id => i <= j

IsPrefix(v, w) == Len(v) <= Len(w) /\ SubSeq(w, 1, Len(v)) = v

\* In every state: a create never fails, the collection is the sequence of
\* all pushes, and a fetch of a created id returns the earliest-created
\* entity of that id.
FirstCreatedWins ==
    /\ db = pushed
    /\ \A t \in Threads :
          /\ (top[t].op = "create" /\ tret[t].set) => tret[t].ok
          /\ (tpc[t] = "fetch_ret" /\ top[t].id \in CreatedIds) =>
                tret[t] = Ok(pushed[FirstIndex(pushed, top[t].id)])

\* C13: the repository never rejects or replaces on a duplicate id: create
\* appends unconditionally, so the collection only grows (every step keeps
\* what was stored as a prefix), and fetch(id) returns the earliest-created
\* entity of that id, so later creates with the id are not observable.
C13_AppendOnlyFirstWins ==
    [] FirstCreatedWins /\ [][IsPrefix(db, db')]_vars

\* A fetch of an id created twice, with different names, has returned the
\* earlier of the two.
C13_Witness ==
    \E t \in Threads :
       /\ tpc[t] = "fetch_ret"
       /\ \E i, j \in DOMAIN pushed :
             /\ i < j
             /\ pushed[i].id = top[t].id
             /\ pushed[j].id = top[t].id
             /\ pushed[i] # pushed[j]
             /\ \A k \in DOMAIN pushed : pushed[k].id = top[t].id => i <= k
             /\ tret[t] = Ok(pushed[i])

---------------------------------------------------------------------------
\* Claims about RepositoryId (SpecId).

\* C11: identifier round trip: parsing the text form of an identifier gives
\* an identifier equal to it, and converting it to its raw Uuid and back
\* gives an identifier equal to it.
C11_IdRoundTrip ==
    /\ (id_parsed.set /\ id_parsed.src = "display") =>
          id_parsed.ok /\ id_parsed.id = id_cur
    /\ id_rebuilt # NoId => id_rebuilt = id_cur

\* Both round trips done on a v4 identifier whose bytes have unequal nibbles.
C11_Witness ==
    /\ id_parsed.set
    /\ id_parsed.src = "display"
    /\ id_parsed.id = id_cur
    /\ id_rebuilt = id_cur
    /\ id_cur.value = V4Bits(id_cur.value)
    /\ \E i \in DOMAIN id_cur.value :
          id_cur.value[i] \div 16 # id_cur.value[i] % 16

=============================================================================
